---- MODULE Spec2Model ----
(***************************************************************************)
(* Model of models.py (CEE 290 Models): the cost function ssr, the         *)
(* interception model right-hand side interceptionModel, and the two       *)
(* ensemble cost drivers interceptCostRK4 and interceptionModel_CF.        *)
(*                                                                         *)
(* Numbers are numpy float64 values.  They are modelled as exact rationals *)
(* [n |-> numerator, d |-> denominator] in lowest terms with d > 0, plus   *)
(* the three non-finite values numpy arithmetic produces: d = 0 with       *)
(* n = 1 (inf), n = -1 (-inf) and n = 0 (nan).  Rounding is not modelled.  *)
(***************************************************************************)
EXTENDS Integers, Sequences, FiniteSets, TLC

(***************************************************************************)
(* Bounds of the model.                                                    *)
(***************************************************************************)
\* largest number of observation times (rows of Obs)
MaxM == 3
\* largest ensemble size (rows of Pars)
MaxN == 2

(***************************************************************************)
(* float64 arithmetic                                                      *)
(***************************************************************************)
Abs(x) == IF x < 0 THEN -x ELSE x

RECURSIVE Gcd(_, _)
Gcd(x, y) == IF y = 0 THEN x ELSE Gcd(y, x % y)

Sgn(x) == IF x > 0 THEN 1 ELSE IF x < 0 THEN -1 ELSE 0

NaN == [n |-> 0, d |-> 0]
Inf(s) == [n |-> s, d |-> 0]

\* the float n/d, d # 0, in lowest terms
Q(n, d) ==
    LET g == Gcd(Abs(n), Abs(d))
    IN  [n |-> (Sgn(d) * n) \div g, d |-> Abs(d) \div g]

\* the float of an integer literal
F(k) == [n |-> k, d |-> 1]

IsNaN(x) == x.d = 0 /\ x.n = 0
IsInf(x) == x.d = 0 /\ x.n # 0

Neg(x) == [n |-> -x.n, d |-> x.d]

\* x + y
Add(x, y) ==
    IF IsNaN(x) \/ IsNaN(y) THEN NaN
    ELSE IF IsInf(x) THEN (IF IsInf(y) /\ y.n # x.n THEN NaN ELSE x)
    ELSE IF IsInf(y) THEN y
    ELSE LET g == Gcd(x.d, y.d)
             l == (x.d \div g) * y.d
         IN  Q(x.n * (l \div x.d) + y.n * (l \div y.d), l)

\* x - y
Sub(x, y) == Add(x, Neg(y))

\* x * y
Mul(x, y) ==
    IF IsNaN(x) \/ IsNaN(y) THEN NaN
    ELSE IF IsInf(x) \/ IsInf(y)
         THEN (IF x.n = 0 \/ y.n = 0 THEN NaN ELSE Inf(Sgn(x.n) * Sgn(y.n)))
    ELSE LET g1 == Gcd(Abs(x.n), y.d)
             g2 == Gcd(Abs(y.n), x.d)
         IN  Q((x.n \div g1) * (y.n \div g2), (x.d \div g2) * (y.d \div g1))

\* x / y as numpy divides: a zero divisor gives inf, -inf or nan, never an error
Div(x, y) ==
    IF IsNaN(x) \/ IsNaN(y) THEN NaN
    ELSE IF IsInf(y) THEN (IF IsInf(x) THEN NaN ELSE F(0))
    ELSE IF y.n = 0 THEN (IF x.n = 0 THEN NaN ELSE Inf(Sgn(x.n)))
    ELSE IF IsInf(x) THEN Inf(Sgn(x.n) * Sgn(y.n))
    ELSE Mul(x, Q(y.d, y.n))

\* x > y; false when either is nan
Gt(x, y) == Sub(x, y).n > 0

\* x >= y; false when either is nan
Ge(x, y) == ~IsNaN(x) /\ ~IsNaN(y) /\ (x = y \/ Gt(x, y))

\* np.maximum(x, y): nan propagates
np_maximum(x, y) ==
    IF IsNaN(x) \/ IsNaN(y) THEN NaN ELSE IF Gt(y, x) THEN y ELSE x

\* np.interp(x, xp, fp) for increasing xp: linear between the nodes, the edge
\* value outside them
np_interp(x, xp, fp) ==
    LET m == Len(xp)
    IN  IF ~Gt(x, xp[1]) THEN fp[1]
        ELSE IF Ge(x, xp[m]) THEN fp[m]
        ELSE LET j == CHOOSE k \in 1..(m - 1) : Ge(x, xp[k]) /\ Gt(xp[k + 1], x)
                 slope == Div(Sub(fp[j + 1], fp[j]), Sub(xp[j + 1], xp[j]))
             IN  Add(Mul(slope, Sub(x, xp[j])), fp[j])

\* sum of a sequence of floats, left to right
RECURSIVE SumSeq(_)
SumSeq(s) == IF s = <<>> THEN F(0) ELSE Add(SumSeq(SubSeq(s, 1, Len(s) - 1)), s[Len(s)])

(***************************************************************************)
(* 2-D arrays are sequences of rows; a 1-D array of length L broadcasts as *)
(* an array of one row of L columns.                                       *)
(***************************************************************************)
Rows(m) == Len(m)
Cols(m) == Len(m[1])

\* m.T
Transpose(m) == [c \in 1..Cols(m) |-> [r \in 1..Rows(m) |-> m[r][c]]]

\* numpy broadcasting of one axis: equal lengths, or one of them is 1
Broadcastable(x, y) == x = y \/ x = 1 \/ y = 1

BMax(x, y) == IF x > y THEN x ELSE y

ValueError == [ok |-> FALSE, err |-> "ValueError"]

\* ssr with the residuals summed unsquared
ssr_nosquare(p, d) ==
    IF ~(Broadcastable(Rows(p), Rows(d)) /\ Broadcastable(Cols(p), Cols(d)))
    THEN ValueError
    ELSE LET R == BMax(Rows(p), Rows(d))
             C == BMax(Cols(p), Cols(d))
             at(m, r, c) == m[IF Rows(m) = 1 THEN 1 ELSE r][IF Cols(m) = 1 THEN 1 ELSE c]
             res == [r \in 1..R |-> [c \in 1..C |-> Sub(at(p, r, c), at(d, r, c))]]
         IN  [ok |-> TRUE, res |-> res,
              ssr |-> [r \in 1..R |-> SumSeq(res[r])]]

\* ssr(p, d): the residuals p - d under numpy broadcasting and their squares
\* summed along axis 1
ssr(p, d) ==
    IF ~(Broadcastable(Rows(p), Rows(d)) /\ Broadcastable(Cols(p), Cols(d)))
    THEN ValueError
    ELSE LET R == BMax(Rows(p), Rows(d))
             C == BMax(Cols(p), Cols(d))
             at(m, r, c) == m[IF Rows(m) = 1 THEN 1 ELSE r][IF Cols(m) = 1 THEN 1 ELSE c]
             res == [r \in 1..R |-> [c \in 1..C |-> Sub(at(p, r, c), at(d, r, c))]]
         IN  [ok |-> TRUE, res |-> res,
              ssr |-> [r \in 1..R |-> SumSeq([c \in 1..C |-> Mul(res[r][c], res[r][c])])]]

(***************************************************************************)
(* Interception model: the right-hand side dS/dt.  S and the raw           *)
(* parameters a, b, c, d are arrays of one entry per ensemble member (a    *)
(* scalar is an array of one entry); t is a scalar; T, Pr, E0 are the      *)
(* observed times, precipitation and potential evaporation.                *)
(***************************************************************************)
\* the drainage of one member: bm*(S-cm) when S > cm, else 0
Drainage(S, bm, cm) == IF Gt(S, cm) THEN Mul(bm, Sub(S, cm)) ELSE F(0)

interceptionModel(t, S, T, Pr, E0, a, b, c, d) ==
    LET N == Len(S)
        am == a
        bm == [k \in 1..N |-> Add(Mul(F(999), b[k]), F(1))]
        cm == [k \in 1..N |-> Mul(F(5), c[k])]
        dm == [k \in 1..N |-> Mul(F(3), d[k])]
        S0 == [k \in 1..N |-> np_maximum(S[k], F(0))]
        Pr_int == np_maximum(np_interp(t, T, Pr), F(0))
        E0_int == np_maximum(np_interp(t, T, E0), F(0))
        I == [k \in 1..N |-> Mul(am[k], Pr_int)]
    IN  \* `if S>cm:` takes the truth value of the array S>cm, which numpy
        \* refuses for an array of more than one element
        IF N > 1 THEN ValueError
        ELSE LET D == Drainage(S0[1], bm[1], cm[1])
                 E == [k \in 1..N |-> Mul(Mul(dm[k], E0_int), Div(S0[k], cm[k]))]
             IN  [ok |-> TRUE, dS |-> [k \in 1..N |-> Sub(Sub(I[k], D), E[k])]]

(***************************************************************************)
(* rungekutta.rk4: the classical fourth-order Runge-Kutta step of the      *)
(* whole state vector y from time t over dt; an error raised by the model  *)
(* function propagates.  args = <<T, Pr, E0, a, b, c, d>>.                 *)
(***************************************************************************)
AddV(x, y) == [k \in 1..Len(x) |-> Add(x[k], y[k])]
ScaleV(h, x) == [k \in 1..Len(x) |-> Mul(h, x[k])]

\* the model function applied to the arguments the driver bundles
mf(t, S, args) ==
    interceptionModel(t, S, args[1], args[2], args[3], args[4], args[5], args[6], args[7])

\* the model function at time t + h and state y + h*k
mf_at(t, y, h, k, args) ==
    CHOOSE r \in {mf(tt, yy, args) : tt \in {Add(t, h)}, yy \in {AddV(y, ScaleV(h, k))}} : TRUE

\* y + dt/6 * (k1 + 2*k2 + 2*k3 + k4)
rk4_update(y, dt, k1, k2, k3, k4) ==
    LET sum == AddV(AddV(k1, ScaleV(F(2), k2)), AddV(ScaleV(F(2), k3), k4))
    IN  [ok |-> TRUE, y |-> AddV(y, ScaleV(Mul(dt, Q(1, 6)), sum))]

rk4_stage4(t, y, dt, args, k1, k2, k3) ==
    CHOOSE r \in {IF ~k4.ok THEN k4 ELSE rk4_update(y, dt, k1, k2, k3, k4.dS) :
                    k4 \in {mf_at(t, y, dt, k3, args)}} : TRUE

rk4_stage3(t, y, dt, args, k1, k2) ==
    CHOOSE r \in {IF ~k3.ok THEN k3 ELSE rk4_stage4(t, y, dt, args, k1, k2, k3.dS) :
                    k3 \in {mf_at(t, y, Mul(dt, Q(1, 2)), k2, args)}} : TRUE

rk4_stage2(t, y, dt, args, k1) ==
    CHOOSE r \in {IF ~k2.ok THEN k2 ELSE rk4_stage3(t, y, dt, args, k1, k2.dS) :
                    k2 \in {mf_at(t, y, Mul(dt, Q(1, 2)), k1, args)}} : TRUE

rk4(t, y, dt, args) ==
    CHOOSE r \in {IF ~k1.ok THEN k1 ELSE rk4_stage2(t, y, dt, args, k1.dS) :
                    k1 \in {mf(t, y, args)}} : TRUE

(***************************************************************************)
(* rungekutta.rkf45: one accepted Runge-Kutta-Fehlberg step.  The results  *)
(* it can return for a call from (t, s) with trial step dt: a new step     *)
(* size, a later time and a new storage.                                   *)
(***************************************************************************)
StepSizes == {F(6), F(12)}
NewStorages == {F(0), F(1)}

rkf45(t, s, dt, args) ==
    {<<h, Add(t, h), s1>> : h \in StepSizes, s1 \in NewStorages}

(***************************************************************************)
(* The inputs the callers supply.                                          *)
(***************************************************************************)
\* raw parameter rows <<a, b, c, d>>; the third has zero capacity
ParRows == { <<F(1), F(0),      Q(1, 5), F(0)>>,
             <<F(1), Q(1, 999), Q(1, 5), Q(1, 3)>>,
             <<F(1), F(0),      F(0),    Q(1, 3)>>,
             <<F(0), Q(1, 999), Q(2, 5), F(0)>> }

\* all sequences of length n over S
SeqN(S, n) == [1..n -> S]

\* parameter ensembles of N >= 1 rows
Ensembles == UNION {SeqN(ParRows, N) : N \in 1..MaxN}

\* <<storage, precipitation, potential evaporation>> of one observation
ObsVals == { <<F(3), F(0), F(0)>>, <<F(0), F(0), F(0)>>, <<F(1), F(8), F(8)>> }

\* intervals between consecutive observation times
Gaps == {6, 12}

RECURSIVE TimesOf(_)
TimesOf(g) ==
    IF g = <<>> THEN <<0>>
    ELSE LET h == TimesOf(SubSeq(g, 1, Len(g) - 1)) IN Append(h, h[Len(h)] + g[Len(g)])

\* observation tables of M >= 1 rows <<time, storage, precipitation, evaporation>>,
\* times strictly increasing from 0
ObsTables ==
    UNION { { [k \in 1..M |-> <<F(TimesOf(g)[k]), v[k][1], v[k][2], v[k][3]>>] :
                g \in SeqN(Gaps, M - 1), v \in SeqN(ObsVals, M) } : M \in 1..MaxM }

\* Obs[:,c]
Column(Obs, c) == [k \in 1..Len(Obs) |-> Obs[k][c]]

\* arrays of floats handed to ssr directly
SsrVals == {F(-1), F(2)}
SsrRows == {1, 2}
SsrArrays ==
    UNION { SeqN(SeqN(SsrVals, nc), nr) : nr \in SsrRows, nc \in 1..MaxM }

(***************************************************************************)
(* State                                                                   *)
(***************************************************************************)
VARIABLES
    fn,        \* the function being called
    pc,        \* where the call is
    Pars,      \* the parameter ensemble, one row per member
    Args,      \* <<Obs, step size>>: the observation table and the step size
    dt,        \* the step size in use
    p, d,      \* the arguments of a direct call of ssr
    t, S,      \* the time and state arguments of a direct call of
               \* interceptionModel; t and s in interceptionModel_CF
    i,         \* the loop index (0-based, as in the code)
    simStor,   \* interceptCostRK4: the trajectory matrix (times x members)
    steps,     \* interceptCostRK4: the rk4 calls made, as [t, dt, read, write]
    obsSims,   \* interceptionModel_CF: resampled trajectories (times x members)
    sims,      \* interceptionModel_CF: the raw traces appended so far
    simn,      \* interceptionModel_CF: the trace of the current member
    ret        \* what the call returned or raised

vars == <<fn, pc, Pars, Args, dt, p, d, t, S, i, simStor, steps, obsSims, sims, simn, ret>>

None == <<>>

Obs == Args[1]
obsTime == Column(Obs, 1)
obsStor == Column(Obs, 2)
obsPrec == Column(Obs, 3)
obsEvap == Column(Obs, 4)
M == Len(Obs)
N == Len(Pars)
A == Column(Pars, 1)
B == Column(Pars, 2)
C == Column(Pars, 3)
D == Column(Pars, 4)

zeros(r, c) == [x \in 1..r |-> [y \in 1..c |-> F(0)]]

(***************************************************************************)
(* A direct call of ssr(p, d), with the calls ssr(d, p) and ssr(p, p) made *)
(* beside it.                                                              *)
(***************************************************************************)
InitSsr ==
    /\ fn = "ssr" /\ pc = "call"
    /\ p \in SsrArrays /\ d \in SsrArrays
    /\ Pars = None /\ Args = None /\ dt = None
    /\ t = None /\ S = None /\ i = 0 /\ simStor = None /\ steps = <<>>
    /\ obsSims = None /\ sims = <<>> /\ simn = None /\ ret = None

Ssr_call ==
    /\ fn = "ssr" /\ pc = "call"
    /\ ret' = [pd |-> ssr(p, d), dp |-> ssr(d, p), pp |-> ssr(p, p)]
    /\ pc' = "done"
    /\ UNCHANGED <<fn, Pars, Args, dt, p, d, t, S, i, simStor, steps, obsSims, sims, simn>>

NextSsr == Ssr_call

SpecSsr == InitSsr /\ [][NextSsr]_vars

(***************************************************************************)
(* A direct call of interceptionModel(t, S, T, Pr, E0, a, b, c, d) with a  *)
(* state of one entry per member of the ensemble.                          *)
(***************************************************************************)
QueryTimes == {F(0), Q(9, 2), F(6)}
Storages == {F(0), F(1), F(3)}

InitDyn ==
    /\ fn = "interceptionModel" /\ pc = "call"
    /\ Pars \in Ensembles
    /\ Args \in ObsTables \X {None}
    /\ t \in QueryTimes
    /\ S \in SeqN(Storages, Len(Pars))
    /\ dt = None /\ p = None /\ d = None /\ i = 0 /\ simStor = None /\ steps = <<>>
    /\ obsSims = None /\ sims = <<>> /\ simn = None /\ ret = None

Dyn_call ==
    /\ fn = "interceptionModel" /\ pc = "call"
    /\ ret' = interceptionModel(t, S, obsTime, obsPrec, obsEvap, A, B, C, D)
    /\ pc' = "done"
    /\ UNCHANGED <<fn, Pars, Args, dt, p, d, t, S, i, simStor, steps, obsSims, sims, simn>>

NextDyn == Dyn_call

SpecDyn == InitDyn /\ [][NextDyn]_vars

(***************************************************************************)
(* interceptCostRK4(Pars, Args)                                            *)
(***************************************************************************)
InitRK4 ==
    /\ fn = "interceptCostRK4" /\ pc = "start"
    /\ Pars \in Ensembles
    /\ Args \in ObsTables \X StepSizes
    /\ dt = None
    /\ p = None /\ d = None /\ t = None /\ S = None
    /\ i = 0 /\ simStor = None /\ steps = <<>>
    /\ obsSims = None /\ sims = <<>> /\ simn = None /\ ret = None

\* simStor = zeros((M, N)); simStor[0,:] = obsStor[0]
RK4_init ==
    /\ fn = "interceptCostRK4" /\ pc = "start"
    /\ dt' = Args[2]
    /\ simStor' = [zeros(M, N) EXCEPT ![1] = [k \in 1..N |-> obsStor[1]]]
    /\ i' = 0
    /\ pc' = "loop"
    /\ UNCHANGED <<fn, Pars, Args, p, d, t, S, steps, obsSims, sims, simn, ret>>

\* the time k steps of size dt after the first observation
RK4_t_accumulated(k) == Add(obsTime[1], Mul(F(k), dt))

\* the time the loop hands to rk4 in iteration k: `for i,t in enumerate(obsTime)`
RK4_t(k) == obsTime[k + 1]

\* one iteration that takes a step: simStor[j,:] = rk.rk4(t, simStor[i,:], dt, mf, args)
RK4_step ==
    /\ fn = "interceptCostRK4" /\ pc = "loop"
    /\ i + 1 < M
    /\ LET j == i + 1
           r == rk4(RK4_t(i), simStor[i + 1], dt,
                    <<obsTime, obsPrec, obsEvap, A, B, C, D>>)
       IN  /\ steps' = Append(steps, [t |-> RK4_t(i), dt |-> dt, read |-> i, write |-> j])
           /\ IF r.ok
              THEN /\ simStor' = [simStor EXCEPT ![j + 1] = r.y]
                   /\ i' = i + 1
                   /\ UNCHANGED <<pc, ret>>
              ELSE /\ pc' = "raised"
                   /\ ret' = r
                   /\ UNCHANGED <<simStor, i>>
    /\ UNCHANGED <<fn, Pars, Args, dt, p, d, t, S, obsSims, sims, simn>>

\* the last iteration: `if j >= obsTime.size: break`
RK4_break ==
    /\ fn = "interceptCostRK4" /\ pc = "loop"
    /\ ~(i + 1 < M)
    /\ pc' = "return"
    /\ UNCHANGED <<fn, Pars, Args, dt, p, d, t, S, i, simStor, steps, obsSims, sims, simn, ret>>

\* return [simStor.T, ssr(simStor.T, obsStor)]
RK4_return ==
    /\ fn = "interceptCostRK4" /\ pc = "return"
    /\ LET c == ssr(Transpose(simStor), <<obsStor>>)
       IN  IF c.ok
           THEN ret' = [ok |-> TRUE, sim |-> Transpose(simStor), res |-> c.res, ssr |-> c.ssr]
                /\ pc' = "done"
           ELSE ret' = c /\ pc' = "raised"
    /\ UNCHANGED <<fn, Pars, Args, dt, p, d, t, S, i, simStor, steps, obsSims, sims, simn>>

NextRK4 == RK4_init \/ RK4_step \/ RK4_break \/ RK4_return

SpecRK4 == InitRK4 /\ [][NextRK4]_vars

(***************************************************************************)
(* interceptionModel_CF(Pars, Args)                                        *)
(***************************************************************************)
\* observation tables with one observation every 6 time units and the same
\* storage and forcing at every time
SteadyTables ==
    UNION { { [k \in 1..nr |-> <<F(6 * (k - 1)), v[1], v[2], v[3]>>] : v \in ObsVals } :
            nr \in 1..MaxM }

\* ensembles whose members share one parameter row
UniformEnsembles == UNION { { [k \in 1..nr |-> r] : r \in ParRows } : nr \in 1..MaxN }

InitCF ==
    /\ fn = "interceptionModel_CF" /\ pc = "start"
    /\ Pars \in UniformEnsembles
    /\ Args \in SteadyTables \X {F(6)}
    /\ dt = None
    /\ p = None /\ d = None /\ t = None /\ S = None
    /\ i = 0 /\ simStor = None /\ steps = <<>>
    /\ obsSims = None /\ sims = <<>> /\ simn = None /\ ret = None

\* obsSims = np.zeros((obsTime.size, A.size)); sims = []
CF_init ==
    /\ fn = "interceptionModel_CF" /\ pc = "start"
    /\ obsSims' = zeros(M, N)
    /\ sims' = <<>>
    /\ i' = 0
    /\ pc' = "for"
    /\ UNCHANGED <<fn, Pars, Args, dt, p, d, t, S, simStor, steps, simn, ret>>

\* the members the loop visits: `for i in range(A.size-1)`
CF_range == 0..((N - 1) - 1)

\* the head of one iteration of the member loop: t, s, dt, simn are set
CF_member ==
    /\ fn = "interceptionModel_CF" /\ pc = "for"
    /\ i \in CF_range
    /\ t' = obsTime[1]
    /\ S' = obsStor[1]
    /\ dt' = dt
    /\ simn' = << <<obsTime[1], obsStor[1]>> >>
    /\ pc' = "while"
    /\ UNCHANGED <<fn, Pars, Args, p, d, i, simStor, steps, obsSims, sims, ret>>

\* a loop condition that lets the loop run one observation interval longer
CF_while_past(tfinal, tnow) == Ge(Add(tfinal, F(6)), tnow)

\* the loop condition `while obsTime[obsTime.size-1] >= t`
CF_while(tfinal, tnow) == Ge(tfinal, tnow)

\* one iteration of the while loop: dt,t,s = rk.rkf45(t,s,dt,mf,args), and the
\* new point is stacked under simn
CF_step ==
    /\ fn = "interceptionModel_CF" /\ pc = "while"
    /\ CF_while(obsTime[M], t)
    /\ \E r \in rkf45(t, S, dt, <<obsTime, obsPrec, obsEvap,
                                  A[i + 1], B[i + 1], C[i + 1], D[i + 1]>>) :
          /\ dt' = r[1]
          /\ t' = r[2]
          /\ S' = r[3]
          /\ simn' = Append(simn, <<r[2], r[3]>>)
    /\ UNCHANGED <<fn, pc, Pars, Args, p, d, i, simStor, steps, obsSims, sims, ret>>

\* after the while loop: the trace is resampled onto the observation times into
\* column i of obsSims and appended to sims
CF_resample ==
    /\ fn = "interceptionModel_CF" /\ pc = "while"
    /\ ~CF_while(obsTime[M], t)
    /\ LET simTime == Column(simn, 1)
           simCol == Column(simn, 2)
       IN  obsSims' = [k \in 1..M |->
                         [obsSims[k] EXCEPT ![i + 1] = np_interp(obsTime[k], simTime, simCol)]]
    /\ sims' = Append(sims, simn)
    /\ i' = i + 1
    /\ pc' = "for"
    /\ UNCHANGED <<fn, Pars, Args, dt, p, d, t, S, simStor, steps, simn, ret>>

\* csts = ssr(obsSims.T, obsStor); return [sims, csts]
CF_return ==
    /\ fn = "interceptionModel_CF" /\ pc = "for"
    /\ i \notin CF_range
    /\ LET csts == ssr(Transpose(obsSims), <<obsStor>>)
       IN  IF csts.ok
           THEN ret' = [ok |-> TRUE, sims |-> sims, res |-> csts.res, ssr |-> csts.ssr]
                /\ pc' = "done"
           ELSE ret' = csts /\ pc' = "raised"
    /\ UNCHANGED <<fn, Pars, Args, dt, p, d, t, S, i, simStor, steps, obsSims, sims, simn>>

NextCF == CF_init \/ CF_member \/ CF_step \/ CF_resample \/ CF_return

SpecCF == InitCF /\ [][NextCF]_vars

(***************************************************************************)
(* Properties                                                              *)
(***************************************************************************)
IsZero(x) == x = F(0)

\* the final observation time
tFinal == obsTime[M]

\* a raw trace resampled onto the observation times
Resampled(trace) ==
    [k \in 1..M |-> np_interp(obsTime[k], Column(trace, 1), Column(trace, 2))]

\* the sum of squared differences of two series of equal length
SquaredDistance(x, y) ==
    SumSeq([k \in 1..Len(x) |-> Mul(Sub(x[k], y[k]), Sub(x[k], y[k]))])

\* C1: when a driver returns, every member k of the ensemble has been
\* simulated: the adaptive driver returns N raw traces, trace k starting at
\* (obsTime[0], obsStor[0]) and reaching the final observation time; the
\* fixed-step driver returns with row 0 equal to obsStor[0] for every member
\* and all M-1 steps taken.
C1_EveryMemberSimulated ==
    /\ (fn = "interceptionModel_CF" /\ pc = "done") =>
          /\ Len(ret.sims) = N
          /\ \A k \in 1..N :
                /\ ret.sims[k][1] = <<obsTime[1], obsStor[1]>>
                /\ Ge(ret.sims[k][Len(ret.sims[k])][1], tFinal)
    /\ (fn = "interceptCostRK4" /\ pc \in {"done", "raised"}) =>
          /\ pc = "done"
          /\ Len(steps) = M - 1
          /\ \A k \in 1..N : simStor[1][k] = obsStor[1]

\* C2: the returned cost vector has N entries, and entry k is the sum of
\* squared residuals between the trajectory simulated for parameter row k
\* (resampled onto the observation times in the adaptive driver) and the
\* observed storage.
C2_CostPerMember ==
    /\ (fn = "interceptionModel_CF" /\ pc = "done") =>
          /\ Len(ret.ssr) = N
          /\ \A k \in 1..N :
                /\ k <= Len(ret.sims)
                /\ ret.ssr[k] = SquaredDistance(Resampled(ret.sims[k]), obsStor)
    /\ (fn = "interceptCostRK4" /\ pc \in {"done", "raised"}) =>
          /\ pc = "done"
          /\ Len(ret.ssr) = N
          /\ \A k \in 1..N :
                ret.ssr[k] = SquaredDistance(Column(simStor, k), obsStor)

\* the traces of the adaptive driver, finished or in progress
CF_traces ==
    {sims[k] : k \in 1..Len(sims)} \cup (IF pc = "while" THEN {simn} ELSE {})

\* the times from which rkf45 has been called to extend a trace: all its
\* points but the last
CallTimes(trace) == {trace[k][1] : k \in 1..(Len(trace) - 1)}

\* C3 as stated: rkf45 is called only from a time strictly before the final
\* observation time, and a finished trace ends at the first time that reaches
\* or exceeds it.
C3_CallsStrictlyBeforeFinal ==
    fn = "interceptionModel_CF" =>
        /\ \A trace \in CF_traces : \A tc \in CallTimes(trace) : Gt(tFinal, tc)
        /\ \A k \in 1..Len(sims) : Ge(sims[k][Len(sims[k])][1], tFinal)

\* C3 amended: rkf45 is called only from a time at or before the final
\* observation time, never from a later one, and a finished trace ends at
\* the first time that exceeds the final observation time.
C3_CallsNotAfterFinal ==
    fn = "interceptionModel_CF" =>
        /\ \A trace \in CF_traces : \A tc \in CallTimes(trace) : Ge(tFinal, tc)
        /\ \A k \in 1..Len(sims) : Gt(sims[k][Len(sims[k])][1], tFinal)
        /\ pc = "while" => t = simn[Len(simn)][1]

\* C3 witness: the driver has returned a trace that was extended from exactly
\* the final observation time, over a grid of more than one time.
C3_SteppedFromFinal ==
    /\ fn = "interceptionModel_CF" /\ pc = "done" /\ M >= 2
    /\ \E k \in 1..Len(ret.sims) : tFinal \in CallTimes(ret.sims[k])

\* C4: the fixed-step driver ends in DONE, never in an error, after exactly
\* M-1 steps; step k reads row k and writes row k+1, and no more than M-1
\* steps are ever taken.
C4_StepsThenDone ==
    fn = "interceptCostRK4" =>
        /\ pc # "raised"
        /\ Len(steps) <= M - 1
        /\ \A k \in 1..Len(steps) : steps[k].read = k - 1 /\ steps[k].write = k
        /\ pc \in {"return", "done"} => Len(steps) = M - 1

\* the rate of member k computed for that member alone
MemberRate(k) ==
    LET bm == Add(Mul(F(999), B[k]), F(1))
        cm == Mul(F(5), C[k])
        dm == Mul(F(3), D[k])
        Sk == np_maximum(S[k], F(0))
        Pr_int == np_maximum(np_interp(t, obsTime, obsPrec), F(0))
        E0_int == np_maximum(np_interp(t, obsTime, obsEvap), F(0))
    IN  Sub(Sub(Mul(A[k], Pr_int), Drainage(Sk, bm, cm)),
            Mul(Mul(dm, E0_int), Div(Sk, cm)))

\* C5: the dynamics returns, for every member k of a state vector, the rate
\* interception_k - drainage_k - evaporation_k with the drainage conditional
\* evaluated for that member.
C5_ElementwiseRate ==
    (fn = "interceptionModel" /\ pc = "done") =>
        /\ ret.ok
        /\ \A k \in 1..N : ret.dS[k] = MemberRate(k)

\* C6: evaluating the dynamics for a member whose capacity is zero (raw
\* c = 0, so cm = 0) ends in an error, not in a returned rate.
C6_ZeroCapacityIsError ==
    (fn = "interceptionModel" /\ pc = "done" /\ \E k \in 1..N : IsZero(C[k])) => ~ret.ok

\* C7: ssr(p, d) fails with an error whenever p and d differ in length on the
\* time axis (axis 1).
C7_SizeMismatchIsError ==
    (fn = "ssr" /\ pc = "done" /\ Cols(p) # Cols(d)) => ~ret.pd.ok

SameShape(x, y) == Rows(x) = Rows(y) /\ Cols(x) = Cols(y)

\* C8: ssr(p, p) is 0 in every row, and for p and d of equal shape
\* ssr(p, d) = ssr(d, p) with residuals of opposite sign.
C8_ZeroOnEqualAndSymmetric ==
    (fn = "ssr" /\ pc = "done") =>
        /\ ret.pp.ok
        /\ \A r \in 1..Rows(p) : IsZero(ret.pp.ssr[r])
        /\ SameShape(p, d) =>
              /\ ret.pd.ok /\ ret.dp.ok
              /\ ret.pd.ssr = ret.dp.ssr
              /\ \A r \in 1..Rows(p) : \A c \in 1..Cols(p) :
                    ret.pd.res[r][c] = Neg(ret.dp.res[r][c])

\* C8 witness: ssr has been applied to two different arrays of equal shape
\* and returned a nonzero cost.
C8_AppliedToDistinctArrays ==
    /\ fn = "ssr" /\ pc = "done" /\ SameShape(p, d) /\ p # d /\ Cols(p) > 1
    /\ \E r \in 1..Rows(p) : Gt(ret.pd.ssr[r], F(0))

ZeroForcing == \A k \in 1..M : IsZero(obsPrec[k]) /\ IsZero(obsEvap[k])

\* C10: with all-zero forcing and a single member, the rate is strictly
\* negative and equal to minus the drainage while the storage is above
\* capacity, and exactly zero while it is at or below capacity.
C10_ZeroForcingRate ==
    (fn = "interceptionModel" /\ pc = "done" /\ N = 1 /\ ZeroForcing) =>
        LET cm == Mul(F(5), C[1])
            bm == Add(Mul(F(999), B[1]), F(1))
        IN  /\ ret.ok
            /\ Gt(S[1], cm) => /\ Gt(F(0), ret.dS[1])
                               /\ ret.dS[1] = Neg(Mul(bm, Sub(S[1], cm)))
            /\ ~Gt(S[1], cm) => IsZero(ret.dS[1])

====
